---- MODULE Spec2Model ----
(***************************************************************************)
(* The drug-search widget: one click handler bound to a button, a text     *)
(* input and a result container.  Two builds of the handler exist in the   *)
(* repository: src/app.ts lines 1-37 renders the fields brand_drug,        *)
(* generic_info and raw_info ("ShapeA"); src/unnamed/part_000 renders      *)
(* brand_info, generic_summary and retailer_info ("ShapeB").  Lines 39-141 *)
(* of src/app.ts are the compiled output of the same two builds.  The page *)
(* loads one of them; the variable `variant` says which.                   *)
(***************************************************************************)
EXTENDS Integers, Sequences, FiniteSets, TLC

\* ------------------------------------------------------------------ bounds
MaxAct == 2

Acts == 1..MaxAct

\* ------------------------------------------------------------- characters
Quote == "\""
Backslash == "\\"
Whitespace == {" "}

\* the values the user gives the query field: empty, whitespace only, padded on
\* both sides, and one with inner whitespace, trailing whitespace and the two
\* characters JSON.stringify escapes
FieldValues ==
    { <<>>, <<" ">>, <<" ", "a", " ">>, <<Quote, " ", Backslash, " ">> }

\* String.prototype.trim
RECURSIVE TrimStart(_)
TrimStart(s) ==
    IF s # <<>> /\ Head(s) \in Whitespace THEN TrimStart(Tail(s)) ELSE s

RECURSIVE TrimEnd(_)
TrimEnd(s) ==
    IF s # <<>> /\ s[Len(s)] \in Whitespace
    THEN TrimEnd(SubSeq(s, 1, Len(s) - 1))
    ELSE s

\* variants of trim: none at all, and leading whitespace only
TrimNothing(s) == s

TrimLeadingOnly(s) == TrimStart(s)

Trim(s) == TrimEnd(TrimStart(s))

\* JSON.stringify of a string: quoted, with quote and backslash escaped
RECURSIVE Escape(_)
Escape(s) ==
    IF s = <<>> THEN <<>>
    ELSE (IF Head(s) \in {Quote, Backslash} THEN <<Backslash, Head(s)>> ELSE <<Head(s)>>)
         \o Escape(Tail(s))

\* JSON.stringify({ brand_drug: brandDrug })
JSONStringify(brandDrug) ==
    <<"{", "\"brand_drug\"", ":", Quote>> \o Escape(brandDrug) \o <<Quote, "}">>

Url == "http://localhost:5000/search"

NoRequest == [method |-> "none", url |-> "", contentType |-> "", body |-> <<>>]

\* the argument of fetch(...)
Request(brandDrug) ==
    [method |-> "POST", url |-> Url, contentType |-> "application/json",
     body |-> JSONStringify(brandDrug)]

\* ------------------------------------------------------------ JSON values
Undefined == [type |-> "undefined"]
JNull == [type |-> "null"]
JStr(s) == [type |-> "string", val |-> s]
JArr(items) == [type |-> "array", items |-> items]
JObj(f) == [type |-> "object", fields |-> f]
\* a body text that is not JSON
Malformed == [type |-> "malformed"]

ShapeA == JObj([brand_drug |-> JStr("X"), generic_info |-> JStr("Y"), raw_info |-> JStr("Z")])
ShapeB(retailers) ==
    JObj([brand_info |-> JStr("A"), generic_summary |-> JStr("B"),
          retailer_info |-> JArr(retailers)])

Bodies == {Malformed, JNull, ShapeA, ShapeB(<<"C", "D">>)}

\* what the network hands back to one fetch: a rejection, or a response
Rejected == [kind |-> "reject", ok |-> FALSE, status |-> 0, body |-> Malformed]
Http(status, body) ==
    [kind |-> "http", ok |-> (status >= 200 /\ status <= 299), status |-> status, body |-> body]

Responses ==
    {Rejected, Http(404, Malformed), Http(500, ShapeB(<<"C", "D">>))}
        \cup {Http(200, b) : b \in Bodies}

NoResponse == [kind |-> "none", ok |-> FALSE, status |-> 0, body |-> Malformed]

\* ------------------------------------------------------------- rendering
\* data.<f>: a missing property reads as undefined
Get(data, f) == IF f \in DOMAIN data.fields THEN data.fields[f] ELSE Undefined

RECURSIVE JoinComma(_)
JoinComma(items) ==
    IF items = <<>> THEN <<>>
    ELSE IF Len(items) = 1 THEN <<items[1]>>
    ELSE <<items[1], ",">> \o JoinComma(Tail(items))

\* ${v} in a template literal
ToStr(v) ==
    CASE v.type = "undefined" -> <<"undefined">>
      [] v.type = "null" -> <<"null">>
      [] v.type = "string" -> <<v.val>>
      [] v.type = "array" -> JoinComma(v.items)
      [] OTHER -> <<"[object Object]">>

Threw == [threw |-> TRUE, markup |-> <<>>]
Built(markup) == [threw |-> FALSE, markup |-> markup]

\* the template literal of src/app.ts with the second field misnamed
RenderAOtherField(data) ==
    IF data.type = "null" THEN Threw
    ELSE Built(<<"<h2>Generic Info for ">> \o ToStr(Get(data, "brand_drug"))
               \o <<"</h2><p>">> \o ToStr(Get(data, "generic_summary"))
               \o <<"</p><h3>Raw Info</h3><p>">> \o ToStr(Get(data, "raw_info"))
               \o <<"</p>">>)

\* the template literal of src/app.ts
RenderA(data) ==
    IF data.type = "null" THEN Threw
    ELSE Built(<<"<h2>Generic Info for ">> \o ToStr(Get(data, "brand_drug"))
               \o <<"</h2><p>">> \o ToStr(Get(data, "generic_info"))
               \o <<"</p><h3>Raw Info</h3><p>">> \o ToStr(Get(data, "raw_info"))
               \o <<"</p>">>)

\* the retailer boxes, last element first
RECURSIVE RetailerBoxesReversed(_)
RetailerBoxesReversed(items) ==
    IF items = <<>> THEN <<>>
    ELSE RetailerBoxesReversed(Tail(items))
         \o <<"<div class=\"retailer-box box\"><pre>", items[1], "</pre></div>">>

\* (info) => `<div class="retailer-box box"><pre>${info}</pre></div>`, mapped and joined
RECURSIVE RetailerBoxes(_)
RetailerBoxes(items) ==
    IF items = <<>> THEN <<>>
    ELSE <<"<div class=\"retailer-box box\"><pre>", items[1], "</pre></div>">>
         \o RetailerBoxes(Tail(items))

\* the template literal of src/unnamed/part_000
RenderB(data) ==
    IF data.type = "null" THEN Threw
    ELSE IF Get(data, "retailer_info").type # "array" THEN Threw
    ELSE Built(<<"<div class=\"top-row\"><div id=\"brand-box\" class=\"box\"><h2>Brand Info</h2><pre>">>
               \o ToStr(Get(data, "brand_info"))
               \o <<"</pre></div><div id=\"generic-box\" class=\"box\"><h2>Generic Summary</h2><pre>">>
               \o ToStr(Get(data, "generic_summary"))
               \o <<"</pre></div></div><div id=\"retailer-row\" class=\"row\">">>
               \o RetailerBoxes(Get(data, "retailer_info").items)
               \o <<"</div>">>)

Render(v, data) == IF v = "ShapeA" THEN RenderA(data) ELSE RenderB(data)

\* what the result container holds: the property last assigned and its value
Content(prop, value) == [prop |-> prop, value |-> value]
EmptyContent == Content("none", <<>>)
HttpErrorText == Content("innerText", <<"Error fetching drug information.">>)
GenericErrorText == Content("innerText", <<"An error occurred.">>)
AlertText == "Please enter a brand drug name."

\* resultDiv.innerText = text: the element's content before, and after
SetInnerText(prev, text) == Content("innerText", <<text>>)

\* resultDiv.innerHTML += markup
AppendInnerHTML(prev, markup) == Content("innerHTML", prev.value \o markup)

\* resultDiv.innerHTML = markup
SetInnerHTML(prev, markup) == Content("innerHTML", markup)

\* ------------------------------------------------------------------ state
VARIABLES
    variant,        \* which build of the handler the page loaded
    searchInput,    \* searchInput.value
    resultDiv,      \* the content of the result container
    pc,             \* per activation: "idle" (not yet clicked), "fetch", "json", "done"
    inflight,       \* per activation: the request handed to fetch, until the handler returns
    response,       \* per activation: the local `response`, while its body is being read
    alerts,         \* the notices shown by alert(), in order
    consoleErrors,  \* number of console.error records
    fetchCalls,     \* number of calls of fetch
    jsonCalls,      \* number of calls of response.json()
    writes,         \* per activation: number of assignments to the result container
    validActs,      \* number of clicks made while the field held a visible character
    aloneAtClick,   \* per pending activation: no other activation was pending at its click
    lastSettled,    \* the activation that returned last from its final await (0: none)
    lastReq,        \* the request of that activation
    lastResp,       \* the network outcome that activation got
    repeated        \* that activation repeated the request and outcome of the one settled
                    \* before it, and was clicked after that one had settled

vars == <<variant, searchInput, resultDiv, pc, inflight, response, alerts, consoleErrors,
          fetchCalls, jsonCalls, writes, validActs, aloneAtClick, lastSettled, lastReq,
          lastResp, repeated>>

Variants == {"ShapeA", "ShapeB"}

Init ==
    /\ variant \in Variants
    /\ searchInput = <<>>
    /\ resultDiv = EmptyContent
    /\ pc = [i \in Acts |-> "idle"]
    /\ inflight = [i \in Acts |-> NoRequest]
    /\ response = [i \in Acts |-> NoResponse]
    /\ alerts = <<>>
    /\ consoleErrors = 0
    /\ fetchCalls = 0
    /\ jsonCalls = 0
    /\ writes = [i \in Acts |-> 0]
    /\ validActs = 0
    /\ aloneAtClick = [i \in Acts |-> FALSE]
    /\ lastSettled = 0
    /\ lastReq = NoRequest
    /\ lastResp = NoResponse
    /\ repeated = FALSE

HasVisible(s) == \E k \in 1..Len(s) : s[k] \notin Whitespace

Pending(i) == pc[i] \in {"fetch", "json"}

\* the user edits the query field
Type(v) ==
    /\ v # searchInput
    /\ searchInput' = v
    /\ UNCHANGED <<variant, resultDiv, pc, inflight, response, alerts, consoleErrors,
                   fetchCalls, jsonCalls, writes, validActs, aloneAtClick, lastSettled,
                   lastReq, lastResp, repeated>>

\* a listener that ignores a click while an earlier activation is pending
NextClickWhenNonePending(i) ==
    /\ pc[i] = "idle"
    /\ \A j \in Acts : j < i => pc[j] = "done"

\* a listener that stops answering clicks once an activation ended in the catch block
NextClickUnlessCaught(i) ==
    /\ pc[i] = "idle"
    /\ \A j \in Acts : j < i => pc[j] # "idle"
    /\ consoleErrors = 0

\* the listener runs on every click; clicks are numbered in the order they happen
NextClick(i) == pc[i] = "idle" /\ \A j \in Acts : j < i => pc[j] # "idle"

\* a click whose handler shows a loading text before the request
ClickShowsLoading(i) ==
    /\ NextClick(i)
    /\ LET brandDrug == Trim(searchInput)
       IN  IF brandDrug = <<>>
           THEN /\ alerts' = Append(alerts, AlertText)
                /\ pc' = [pc EXCEPT ![i] = "done"]
                /\ UNCHANGED <<inflight, fetchCalls, aloneAtClick, resultDiv>>
           ELSE /\ inflight' = [inflight EXCEPT ![i] = Request(brandDrug)]
                /\ fetchCalls' = fetchCalls + 1
                /\ pc' = [pc EXCEPT ![i] = "fetch"]
                /\ aloneAtClick' = [aloneAtClick EXCEPT ![i] = \A j \in Acts : ~Pending(j)]
                /\ resultDiv' = SetInnerText(resultDiv, "Loading...")
                /\ UNCHANGED alerts
    /\ validActs' = IF HasVisible(searchInput) THEN validActs + 1 ELSE validActs
    /\ UNCHANGED <<variant, searchInput, response, consoleErrors, jsonCalls,
                   writes, lastSettled, lastReq, lastResp, repeated>>

\* a click: the handler runs up to its first await, or returns after the alert
Click(i) ==
    /\ NextClick(i)
    /\ LET brandDrug == Trim(searchInput)
       IN  IF brandDrug = <<>>
           THEN /\ alerts' = Append(alerts, AlertText)
                /\ pc' = [pc EXCEPT ![i] = "done"]
                /\ UNCHANGED <<inflight, fetchCalls, aloneAtClick>>
           ELSE /\ inflight' = [inflight EXCEPT ![i] = Request(brandDrug)]
                /\ fetchCalls' = fetchCalls + 1
                /\ pc' = [pc EXCEPT ![i] = "fetch"]
                /\ aloneAtClick' = [aloneAtClick EXCEPT ![i] = \A j \in Acts : ~Pending(j)]
                /\ UNCHANGED alerts
    /\ validActs' = IF HasVisible(searchInput) THEN validActs + 1 ELSE validActs
    /\ UNCHANGED <<variant, searchInput, resultDiv, response, consoleErrors, jsonCalls,
                   writes, lastSettled, lastReq, lastResp, repeated>>

\* the handler of activation i returns, having got the network outcome r
Return(i, r) ==
    /\ pc' = [pc EXCEPT ![i] = "done"]
    /\ inflight' = [inflight EXCEPT ![i] = NoRequest]
    /\ response' = [response EXCEPT ![i] = NoResponse]
    /\ aloneAtClick' = [aloneAtClick EXCEPT ![i] = FALSE]
    /\ lastSettled' = i
    /\ lastReq' = inflight[i]
    /\ lastResp' = r
    /\ repeated' = (/\ lastSettled # 0
                    /\ lastSettled < i
                    /\ aloneAtClick[i]
                    /\ lastReq = inflight[i]
                    /\ lastResp = r)

\* an empty catch block
CatchSilently(i) ==
    /\ UNCHANGED <<consoleErrors, resultDiv, writes>>

\* catch (error) { console.error("Error:", error); resultDiv.innerText = "An error occurred."; }
Catch(i) ==
    /\ consoleErrors' = consoleErrors + 1
    /\ resultDiv' = SetInnerText(resultDiv, "An error occurred.")
    /\ writes' = [writes EXCEPT ![i] = @ + 1]

\* a handler that treats every response as ok
ResponseOkUnchecked(r) == TRUE

\* response.ok
ResponseOk(r) == r.ok

\* the promise of fetch settles with r and the handler resumes
FetchSettle(i, r) ==
    /\ pc[i] = "fetch"
    /\ IF r.kind = "reject"
       THEN /\ Catch(i)
            /\ Return(i, r)
            /\ UNCHANGED jsonCalls
       ELSE IF ~ResponseOk(r)
       THEN /\ resultDiv' = SetInnerText(resultDiv, "Error fetching drug information.")
            /\ writes' = [writes EXCEPT ![i] = @ + 1]
            /\ Return(i, r)
            /\ UNCHANGED <<jsonCalls, consoleErrors>>
       ELSE /\ response' = [response EXCEPT ![i] = r]
            /\ jsonCalls' = jsonCalls + 1
            /\ pc' = [pc EXCEPT ![i] = "json"]
            /\ UNCHANGED <<resultDiv, writes, consoleErrors, inflight, aloneAtClick,
                           lastSettled, lastReq, lastResp, repeated>>
    /\ UNCHANGED <<variant, searchInput, alerts, fetchCalls, validActs>>

\* the promise of response.json() settles and the handler runs to its end
JsonSettle(i) ==
    /\ pc[i] = "json"
    /\ LET data == response[i].body
       IN  IF data.type = "malformed"
           THEN Catch(i)
           ELSE LET out == Render(variant, data)
                IN  IF out.threw
                    THEN Catch(i)
                    ELSE /\ resultDiv' = SetInnerHTML(resultDiv, out.markup)
                         /\ writes' = [writes EXCEPT ![i] = @ + 1]
                         /\ UNCHANGED consoleErrors
    /\ Return(i, response[i])
    /\ UNCHANGED <<variant, searchInput, alerts, fetchCalls, jsonCalls, validActs>>

Next ==
    \/ \E v \in FieldValues : Type(v)
    \/ \E i \in Acts : Click(i)
    \/ \E i \in Acts, r \in Responses : FetchSettle(i, r)
    \/ \E i \in Acts : JsonSettle(i)

Spec == Init /\ [][Next]_vars

\* every issued request settles, and so does every read of a response body
FairSpec ==
    /\ Spec
    /\ \A i \in Acts : WF_vars(\E r \in Responses : FetchSettle(i, r))
    /\ \A i \in Acts : WF_vars(JsonSettle(i))

\* =================================================================== claims
\* a click of activation i, and the return of its handler from its last await
Clicked(i) == pc[i] = "idle" /\ pc'[i] # "idle"
Returned(i) == pc[i] \in {"fetch", "json"} /\ pc'[i] = "done"

\* the trimmed value, read off the positions of the visible characters
TrimmedValue(s) ==
    LET vis == {k \in 1..Len(s) : s[k] \notin Whitespace}
    IN  IF vis = {} THEN <<>>
        ELSE SubSeq(s, CHOOSE k \in vis : \A m \in vis : k <= m,
                       CHOOSE k \in vis : \A m \in vis : m <= k)

\* what a JSON parser on the server reads back from the body
RECURSIVE Unescape(_)
Unescape(s) ==
    IF s = <<>> THEN <<>>
    ELSE IF Head(s) = Backslash /\ Len(s) >= 2
         THEN <<s[2]>> \o Unescape(Tail(Tail(s)))
         ELSE <<Head(s)>> \o Unescape(Tail(s))

IsBrandDrugBody(body) ==
    /\ Len(body) >= 6
    /\ SubSeq(body, 1, 4) = <<"{", "\"brand_drug\"", ":", Quote>>
    /\ SubSeq(body, Len(body) - 1, Len(body)) = <<Quote, "}">>

BodyBrandDrug(body) == Unescape(SubSeq(body, 5, Len(body) - 2))

\* C1: a click while the query field is empty or holds only whitespace issues no
\* request, shows the notice "Please enter a brand drug name.", leaves the result
\* container as it was, and the activation ends without ever being pending.
C1_EmptyQueryBlocked ==
    [][\A i \in Acts :
          (Clicked(i) /\ ~HasVisible(searchInput)) =>
              /\ fetchCalls' = fetchCalls
              /\ inflight' = inflight
              /\ alerts' = Append(alerts, "Please enter a brand drug name.")
              /\ resultDiv' = resultDiv
              /\ pc'[i] = "done"]_vars

C1_Witness ==
    /\ searchInput = <<" ">>
    /\ pc[1] = "done"
    /\ alerts = <<"Please enter a brand drug name.">>
    /\ fetchCalls = 0
    /\ resultDiv = EmptyContent

\* C2: a click while the field holds a visible character issues exactly one POST
\* whose body's brand_drug is the trimmed value the field held at that click; the
\* request of a pending activation does not change when the field is edited; and
\* the number of requests issued equals the number of such clicks.
C2_OneRequestPerValidClick ==
    [][/\ \A i \in Acts :
            Clicked(i) =>
                IF HasVisible(searchInput)
                THEN /\ fetchCalls' = fetchCalls + 1
                     /\ pc'[i] = "fetch"
                     /\ inflight'[i].method = "POST"
                     /\ inflight'[i].url = "http://localhost:5000/search"
                     /\ inflight'[i].contentType = "application/json"
                     /\ IsBrandDrugBody(inflight'[i].body)
                     /\ BodyBrandDrug(inflight'[i].body) = TrimmedValue(searchInput)
                ELSE fetchCalls' = fetchCalls
       /\ (\A i \in Acts : ~Clicked(i)) => fetchCalls' = fetchCalls
       /\ \A i \in Acts : (pc[i] = "fetch" /\ pc'[i] = "fetch") => inflight'[i] = inflight[i]
       /\ fetchCalls' = validActs']_vars

C2_Witness ==
    \E i \in Acts :
        /\ pc[i] = "fetch"
        /\ BodyBrandDrug(inflight[i].body) = <<Quote, " ", Backslash>>
        /\ searchInput = <<" ", "a", " ">>
        /\ fetchCalls = 1

\* C3: when the response has a status outside the ok range, the result container's
\* text becomes exactly "Error fetching drug information.", response.json() is not
\* called and nothing is written to the console, whatever the status and body; a
\* response whose body is being read is always an ok one.
C3_HttpError ==
    [][/\ \A i \in Acts :
            (Returned(i) /\ lastSettled' = i /\ lastResp'.kind = "http" /\ ~lastResp'.ok) =>
                /\ resultDiv' = [prop |-> "innerText",
                                 value |-> <<"Error fetching drug information.">>]
                /\ jsonCalls' = jsonCalls
                /\ consoleErrors' = consoleErrors
       /\ \A i \in Acts :
            pc'[i] = "json" =>
                /\ response'[i].kind = "http"
                /\ response'[i].status >= 200
                /\ response'[i].status <= 299]_vars

C3_Witness ==
    /\ lastSettled # 0
    /\ lastResp.kind = "http"
    /\ lastResp.status = 500
    /\ lastResp.body # Malformed
    /\ resultDiv.value = <<"Error fetching drug information.">>
    /\ jsonCalls = 0
    /\ consoleErrors = 0

\* the markup cannot be built from this payload: it is null, or (ShapeB build) it
\* has no retailer_info array to map over
BuildThrows(v, body) ==
    \/ body.type = "null"
    \/ /\ v = "ShapeB"
       /\ body.type = "object"
       /\ \/ "retailer_info" \notin DOMAIN body.fields
          \/ body.fields["retailer_info"].type # "array"

\* C4: when the request rejects, the body of an ok response is not JSON, or building
\* the markup throws, the result container's text becomes exactly "An error
\* occurred.", one record is written to the console, and the handler returns.
C4_TransportOrParseError ==
    [][\A i \in Acts :
          /\ (pc[i] = "fetch" /\ pc'[i] # "fetch" /\ lastSettled' = i
                  /\ lastResp'.kind = "reject") =>
                /\ resultDiv' = [prop |-> "innerText", value |-> <<"An error occurred.">>]
                /\ consoleErrors' = consoleErrors + 1
                /\ pc'[i] = "done"
          /\ (pc[i] = "json" /\ pc'[i] # "json"
                  /\ (response[i].body = Malformed \/ BuildThrows(variant, response[i].body))) =>
                /\ resultDiv' = [prop |-> "innerText", value |-> <<"An error occurred.">>]
                /\ consoleErrors' = consoleErrors + 1
                /\ pc'[i] = "done"]_vars

\* reached in the ShapeB build: an ok payload without retailer_info
C4_Witness ==
    /\ variant = "ShapeB"
    /\ lastSettled # 0
    /\ lastResp = Http(200, ShapeA)
    /\ resultDiv.value = <<"An error occurred.">>
    /\ consoleErrors = 1

Contains(markup, s) == \E k \in 1..Len(markup) : markup[k] = s

\* the texts of the retailer entries of a markup, in markup order
RetailerEntries(markup) ==
    LET open == "<div class=\"retailer-box box\"><pre>"
        idx == {k \in 1..(Len(markup) - 1) : markup[k] = open}
    IN  [n \in 1..Cardinality(idx) |->
            markup[(CHOOSE k \in idx : Cardinality({j \in idx : j <= k}) = n) + 1]]

IsShapeB(body) ==
    /\ body.type = "object"
    /\ DOMAIN body.fields = {"brand_info", "generic_summary", "retailer_info"}
    /\ body.fields["retailer_info"].type = "array"

IsShapeA(body) ==
    /\ body.type = "object"
    /\ DOMAIN body.fields = {"brand_drug", "generic_info", "raw_info"}

\* the result container shows the Shape B record `body`
ShowsShapeB(content, body) ==
    /\ content.prop = "innerHTML"
    /\ Contains(content.value, body.fields["brand_info"].val)
    /\ Contains(content.value, body.fields["generic_summary"].val)
    /\ RetailerEntries(content.value) = body.fields["retailer_info"].items

\* the result container shows the Shape A record `body`
ShowsShapeA(content, body) ==
    /\ content.prop = "innerHTML"
    /\ Contains(content.value, body.fields["brand_drug"].val)
    /\ Contains(content.value, body.fields["generic_info"].val)
    /\ Contains(content.value, body.fields["raw_info"].val)

\* the activation that settled last got an ok response with this kind of body
LastGotOk(IsShape(_)) ==
    /\ lastSettled # 0
    /\ lastResp.kind = "http"
    /\ lastResp.ok
    /\ IsShape(lastResp.body)

\* C5, as stated: after an ok response with a Shape B body the result container
\* holds markup with brand_info, generic_summary and one retailer entry per element
\* in order, whichever build of the handler is loaded.
C5_AsStated == LastGotOk(IsShapeB) => ShowsShapeB(resultDiv, lastResp.body)

\* C5, amended: the same, for the build that consults the Shape B fields
\* (src/unnamed/part_000).
C5_ShapeBRendered ==
    (variant = "ShapeB" /\ LastGotOk(IsShapeB)) => ShowsShapeB(resultDiv, lastResp.body)

C5_Witness ==
    /\ variant = "ShapeB"
    /\ lastSettled # 0
    /\ lastResp = Http(200, ShapeB(<<"C", "D">>))
    /\ Contains(resultDiv.value, "A")
    /\ Contains(resultDiv.value, "B")
    /\ RetailerEntries(resultDiv.value) = <<"C", "D">>

\* C6, as stated: after an ok response with a Shape A body the result container
\* holds markup with brand_drug, generic_info and raw_info, whichever build of the
\* handler is loaded.
C6_AsStated == LastGotOk(IsShapeA) => ShowsShapeA(resultDiv, lastResp.body)

\* C6, amended: the same, for the build that consults the Shape A fields
\* (src/app.ts).
C6_ShapeARendered ==
    (variant = "ShapeA" /\ LastGotOk(IsShapeA)) => ShowsShapeA(resultDiv, lastResp.body)

C6_Witness ==
    /\ variant = "ShapeA"
    /\ lastSettled # 0
    /\ lastResp = Http(200, ShapeA)
    /\ Contains(resultDiv.value, "X")
    /\ Contains(resultDiv.value, "Y")
    /\ Contains(resultDiv.value, "Z")

\* what the handler leaves in the result container for a network outcome
OutcomeOf(v, resp) ==
    IF resp.kind = "reject" THEN GenericErrorText
    ELSE IF ~resp.ok THEN HttpErrorText
    ELSE IF resp.body = Malformed \/ BuildThrows(v, resp.body) THEN GenericErrorText
    ELSE Content("innerHTML", Render(v, resp.body).markup)

\* C7: a click with a valid query is accepted while an earlier request is pending
\* and leaves that request as it is; when every activation has settled, the result
\* container holds the outcome of the one that settled last, whatever its number.
C7_OverlapLastSettledWins ==
    /\ [](\A i \in Acts :
            (pc[i] = "idle" /\ \A j \in Acts : j < i => pc[j] # "idle") => ENABLED Click(i))
    /\ [][/\ \A i \in Acts :
               Clicked(i) =>
                   \A j \in Acts \ {i} : pc'[j] = pc[j] /\ inflight'[j] = inflight[j]
          /\ ((\A i \in Acts : pc'[i] \in {"idle", "done"}) /\ lastSettled' # 0) =>
                resultDiv' = OutcomeOf(variant, lastResp')]_vars

\* both requests were in flight, the second settled first, and the stale result of
\* the first is what the container ends with
C7_Witness ==
    /\ pc[1] = "done"
    /\ pc[2] = "done"
    /\ writes[1] = 1
    /\ writes[2] = 1
    /\ lastSettled = 1
    /\ lastResp = Http(404, Malformed)
    /\ resultDiv = HttpErrorText
    /\ jsonCalls = 1

\* C8: when an activation clicked after the previous one settled sends the same
\* request and gets the same outcome, its write leaves the result container with
\* the content the previous activation left.
C8_RepeatRendersSame ==
    [][(lastSettled' # lastSettled /\ repeated') => resultDiv' = resultDiv]_vars

C8_Witness ==
    /\ repeated
    /\ lastSettled = 2
    /\ writes[1] = 1
    /\ writes[2] = 1
    /\ resultDiv.prop = "innerHTML"
    /\ resultDiv.value # <<>>

\* C9: an activation moves idle -> fetch -> (json ->) done or idle -> done and no
\* other way; it becomes pending exactly on a click with a visible character; every
\* pending activation returns to done when requests and body reads settle; and
\* after an activation ended in an error the next click is accepted.
C9_IdlePendingIdle ==
    /\ \A i \in Acts : (pc[i] \in {"fetch", "json"}) ~> (pc[i] = "done")
    /\ [][\A i \in Acts :
            /\ pc'[i] # pc[i] =>
                  <<pc[i], pc'[i]>> \in {<<"idle", "fetch">>, <<"idle", "done">>,
                                         <<"fetch", "json">>, <<"fetch", "done">>,
                                         <<"json", "done">>}
            /\ Clicked(i) => (pc'[i] = "fetch" <=> HasVisible(searchInput))]_vars
    /\ [](\A i \in Acts :
            (/\ pc[i] = "idle"
             /\ \A j \in Acts : j < i => pc[j] # "idle"
             /\ resultDiv.prop = "innerText") => ENABLED Click(i))

\* an activation that ended in an error, followed by one that rendered its payload
C9_Witness ==
    /\ pc[1] = "done"
    /\ pc[2] = "done"
    /\ lastSettled = 2
    /\ consoleErrors = 1
    /\ writes[1] = 1
    /\ resultDiv.prop = "innerHTML"

\* C10: an activation that issued a request assigns the result container exactly
\* once, in the step in which its handler returns; no other step changes the
\* container, and no step of the handler changes the query field.
C10_OneWriteAtSettle ==
    [][/\ \A i \in Acts :
            /\ writes'[i] <= 1
            /\ Returned(i) => (writes[i] = 0 /\ writes'[i] = 1)
            /\ ~Returned(i) => writes'[i] = writes[i]
       /\ (\A i \in Acts : ~Returned(i)) => resultDiv' = resultDiv
       /\ (\E i \in Acts : pc'[i] # pc[i]) => searchInput' = searchInput]_vars

\* a request is pending and the container still holds what the earlier activation left
C10_Witness ==
    /\ pc[1] = "done"
    /\ writes[1] = 1
    /\ pc[2] = "json"
    /\ writes[2] = 0
    /\ resultDiv = HttpErrorText
    /\ searchInput = <<" ", "a", " ">>

====
